---- MODULE Spec2Model ----
(***************************************************************************)
(* Model of band.band_diagram (src/band.py): a 1D stack of material layers *)
(* on a uniform grid, with reset, bend and apply_voltage.                  *)
(*                                                                         *)
(* Representation of the program's numbers:                                *)
(*  - energies (levels, Ef, volt) are fixed-point integers in units of     *)
(*    1e-5 eV (EUnit per eV), so additions of arrays are exact;            *)
(*  - layer thicknesses are integers in nm (the code's unit is um);        *)
(*  - the floating-point quantities of __bend (densities, epsilons, a,     *)
(*    depletion widths, c, the bending profile) are binary floats with a   *)
(*    P-bit mantissa, [m |-> mantissa, e |-> exponent] = m * 2^e;          *)
(*  - a numpy array of length n is a sequence of length n; the Python      *)
(*    index i is the sequence index i+1.                                   *)
(***************************************************************************)
EXTENDS Integers, Sequences, FiniteSets, TLC

(***************************************************************************)
(* Bounds of the model                                                     *)
(***************************************************************************)
MaxCalls == 3

\* the calls of bend made on a device that is only bent
MaxBends == 2

(***************************************************************************)
(* Integer helpers                                                         *)
(***************************************************************************)
Abs(x) == IF x < 0 THEN -x ELSE x

Sgn(x) == IF x > 0 THEN 1 ELSE IF x < 0 THEN -1 ELSE 0

Pow2(k) == 2^k

\* Python round() of the rational num/den (den > 0): round half to even
RoundDiv(num, den) ==
  IF 2*(num % den) < den THEN num \div den
  ELSE IF 2*(num % den) > den THEN (num \div den) + 1
  ELSE IF (num \div den) % 2 = 0 THEN num \div den ELSE (num \div den) + 1

(***************************************************************************)
(* Floats: m * 2^e with |m| in [2^(P-1), 2^P), or zero                     *)
(***************************************************************************)
P == 15

RECURSIVE BitLenIn(_, _, _)
\* the number of bits of x, known to lie in lo..hi
BitLenIn(x, lo, hi) ==
  IF lo = hi THEN lo
  ELSE IF x < Pow2((lo + hi) \div 2) THEN BitLenIn(x, lo, (lo + hi) \div 2)
  ELSE BitLenIn(x, ((lo + hi) \div 2) + 1, hi)

\* x >= 0; the product of two mantissas has 2P-1 or 2P bits
BitLen(x) ==
  IF x >= 268435456
  THEN (IF x >= 1073741824 THEN 31 ELSE IF x >= 536870912 THEN 30 ELSE 29)
  ELSE BitLenIn(x, 0, 28)

FZero == [m |-> 0, e |-> 0]

\* the float of sign sgn whose P leading bits are r, the mantissa a rounded
\* to them, and whose exponent is E; rounding may carry into bit P+1
Rounded(sgn, r, E) ==
  IF r = Pow2(P) THEN [m |-> sgn*Pow2(P-1), e |-> E + 1] ELSE [m |-> sgn*r, e |-> E]

\* M * 2^E, M having b bits
Normalized(M, E, b) ==
  IF b > P THEN Rounded(Sgn(M), RoundDiv(Abs(M), Pow2(b-P)), E + (b-P))
  ELSE [m |-> M*Pow2(P-b), e |-> E - (P-b)]

Norm(M, E) == IF M = 0 THEN FZero ELSE Normalized(M, E, BitLen(Abs(M)))

FromInt(i) == Norm(i, 0)

FNeg(a) == [m |-> -a.m, e |-> a.e]

FAbs(a) == [m |-> Abs(a.m), e |-> a.e]

FSign(a) == Sgn(a.m)

FMul(a, b) == Norm(a.m*b.m, a.e + b.e)

\* b is not zero
FDiv(a, b) ==
  IF a.m = 0 THEN FZero
  ELSE Norm(Sgn(a.m)*Sgn(b.m)*((Abs(a.m)*Pow2(P)) \div Abs(b.m)), a.e - b.e - P)

\* hi + lo, neither zero, the exponent of hi not below that of lo
Aligned(hi, lo) ==
  IF hi.e - lo.e > P THEN hi ELSE Norm(hi.m*Pow2(hi.e - lo.e) + lo.m, lo.e)

FAdd(a, b) ==
  IF a.m = 0 THEN b
  ELSE IF b.m = 0 THEN a
  ELSE IF a.e >= b.e THEN Aligned(a, b) ELSE Aligned(b, a)

FSub(a, b) == FAdd(a, FNeg(b))

FGt(a, b) == FSub(a, b).m > 0

\* the largest integer whose square is below 2^31
MaxRoot == 46340

RECURSIVE ISqrtBit(_, _, _)
ISqrtBit(x, r, k) ==
  IF k < 0 THEN r
  ELSE ISqrtBit(x, IF r + Pow2(k) <= MaxRoot /\ (r + Pow2(k))*(r + Pow2(k)) <= x
                   THEN r + Pow2(k) ELSE r, k-1)

ISqrt(x) == ISqrtBit(x, 0, 15)

\* a is not negative
FSqrt(a) ==
  IF a.m = 0 THEN FZero
  ELSE IF (a.e - P) % 2 = 0 THEN Norm(ISqrt(a.m*Pow2(P)), (a.e - P) \div 2)
  ELSE Norm(ISqrt(a.m*Pow2(P + 1)), (a.e - P - 1) \div 2)

\* the integer nearest to a * 2^s (half to even)
FScaled(a, s) ==
  IF a.m = 0 THEN 0
  ELSE IF a.e + s >= 0 THEN a.m*Pow2(a.e + s)
  ELSE IF -(a.e + s) > 30 THEN 0
  ELSE Sgn(a.m)*RoundDiv(Abs(a.m), Pow2(-(a.e + s)))

(***************************************************************************)
(* Units                                                                   *)
(***************************************************************************)
EUnit == 100000

NmPerUm == 1000

\* an energy of the arrays as a float in eV, and back
EvOf(x) == FDiv(FromInt(x), FromInt(EUnit))

EnergyOf(f) == FScaled(FMul(f, FromInt(EUnit)), 0)

\* a thickness in nm as a float in um
UmOf(t) == FDiv(FromInt(t), FromInt(NmPerUm))

(***************************************************************************)
(* material.py: materials and layers                                       *)
(***************************************************************************)
\* material.__init__(epsilon, Ec, Ev, work)
material(epsilon, Ec, Ev, work) ==
  [epsilon |-> epsilon, levels |-> [Ec |-> Ec, Ev |-> Ev, E0 |-> Ec + work]]

\* 1e30, the dielectric constant given to metals
MetalEpsilon == [m |-> 25849, e |-> 85]

\* an object of the class material itself, neither a metal nor a
\* semiconductor: an artificial material with the levels chosen directly
artificial(epsilon, Ec, Ev, work) == [kind |-> "material"] @@ material(epsilon, Ec, Ev, work)

\* metal.__init__(work_function)
metal(work_function) ==
  [kind |-> "metal", n |-> FZero, p |-> FZero] @@ material(MetalEpsilon, 0, 0, work_function)

\* semiconductor.__init__: n and p are set from the doping (lines 187-199),
\* Ec = kT*log(Nc/n) and Ev = -kT*log(Nv/p) (lines 201-202); the four values
\* are evaluated outside the model and given here
semiconductor(Ec, Ev, electron_affinity, epsilon, n, p) ==
  [kind |-> "semiconductor", n |-> n, p |-> p] @@ material(epsilon, Ec, Ev, electron_affinity)

is_p_doped(mat) == FGt(mat.p, mat.n)

\* layer.__init__(thickness, material)
layer(thickness, mat) == [thickness |-> thickness, material |-> mat]

(***************************************************************************)
(* mat_data.py: the materials used by the tests                            *)
(***************************************************************************)
\* epsilon = 11.7
SiEpsilon == [m |-> 23962, e |-> -11]

\* epsilon = 16.2
GeEpsilon == [m |-> 16589, e |-> -10]

\* Si('p', 1e15): n = 5.786e4, p = 1e15
Si_p15 == semiconductor(87971, -24029, 405000, SiEpsilon, [m |-> 28931, e |-> 1], [m |-> 29104, e |-> 35])

\* Si('n', 1e15): n = 1e15, p = 5.786e4
Si_n15 == semiconductor(26681, -85319, 405000, SiEpsilon, [m |-> 29104, e |-> 35], [m |-> 28931, e |-> 1])

\* Si('p', 1e16): n = 5.786e3, p = 1e16
Si_p16 == semiconductor(93957, -18043, 405000, SiEpsilon, [m |-> 23145, e |-> -2], [m |-> 18190, e |-> 39])

\* Si('n', 1e16): n = 1e16, p = 5.786e3
Si_n16 == semiconductor(20694, -91306, 405000, SiEpsilon, [m |-> 18190, e |-> 39], [m |-> 23145, e |-> -2])

\* Ge('n', 1e16): n = 1e16, p = 4.701e10
Ge_n16 == semiconductor(18028, -48072, 400000, GeEpsilon, [m |-> 18190, e |-> 39], [m |-> 22416, e |-> 21])

\* epsilon = 12.9
GaAsEpsilon == [m |-> 26419, e |-> -11]

\* Si(), GaAs(), Ge(): undoped, n = p = ni
Si_i == semiconductor(57326, -54674, 405000, SiEpsilon, [m |-> 29017, e |-> 18], [m |-> 29017, e |-> 18])

GaAs_i == semiconductor(67041, -75359, 407000, GaAsEpsilon, [m |-> 19849, e |-> 7], [m |-> 19849, e |-> 7])

Ge_i == semiconductor(33976, -32124, 400000, GeEpsilon, [m |-> 20193, e |-> 30], [m |-> 20193, e |-> 30])

\* the part of list_of_semiconductors kept here, each called without doping
list_of_semiconductors == {Si_i, GaAs_i, Ge_i}

\* Al = metal(work_function=4.06)
Al == metal(406000)

\* Au = metal(work_function=5.10)
Au == metal(510000)

\* the part of list_of_metals kept here
list_of_metals == {Al, Au}

(***************************************************************************)
(* band.py: constants                                                      *)
(***************************************************************************)
\* 8.8541878128e-14 C V-1 cm-1
EPSILON_0 == [m |-> 25520, e |-> -58]

\* 1.602176634e-19 C
E_CHARGE == [m |-> 24211, e |-> -77]

\* default of n_points in __init__ and reset
DefaultNPoints == 1000

\* an optional argument is <<>> when absent and <<value>> when given
None == <<>>

Some(x) == <<x>>

(***************************************************************************)
(* numpy arrays                                                            *)
(***************************************************************************)
\* np.zeros(k), val*np.ones(k)
Full(k, val) == [i \in 1..k |-> val]

\* arr[i] with a Python index i: negative indices count from the end
InRange(arr, i) == -Len(arr) <= i /\ i < Len(arr)

At(arr, i) == arr[(IF i < 0 THEN i + Len(arr) ELSE i) + 1]

\* a + b, a - b for arrays of the same length
ArrAdd(a, b) == [i \in 1..Len(a) |-> a[i] + b[i]]

ArrSub(a, b) == [i \in 1..Len(a) |-> a[i] - b[i]]

LevelNames == {"Ec", "Ev", "E0"}

(***************************************************************************)
(* band_diagram.reset                                                      *)
(***************************************************************************)
RECURSIVE PartialThickness(_, _)
\* partial_thickness before layer j+1, that is the sum of the first j thicknesses
PartialThickness(ls, j) ==
  IF j = 0 THEN 0 ELSE PartialThickness(ls, j-1) + ls[j].thickness

\* start truncated instead of rounded
LayerStartFloor(ls, n_points, j) ==
  (PartialThickness(ls, j-1)*n_points) \div PartialThickness(ls, Len(ls))

\* start and end of the span of layer j (lines 111 and 113); the quotient
\* partial_thickness/self.thickness*n_points is taken exactly
LayerStart(ls, n_points, j) ==
  RoundDiv(PartialThickness(ls, j-1)*n_points, PartialThickness(ls, Len(ls)))

\* end truncated instead of rounded
LayerEndFloor(ls, n_points, j) ==
  (PartialThickness(ls, j)*n_points) \div PartialThickness(ls, Len(ls))

LayerEnd(ls, n_points, j) ==
  RoundDiv(PartialThickness(ls, j)*n_points, PartialThickness(ls, Len(ls)))

\* the zero-padded block that layer j adds to level k (lines 115-118)
LayerBlock(ls, n_points, j, k) ==
  Full(LayerStart(ls, n_points, j), 0)
    \o Full(LayerEnd(ls, n_points, j) - LayerStart(ls, n_points, j), ls[j].material.levels[k])
    \o Full(n_points - LayerEnd(ls, n_points, j), 0)

RECURSIVE FlatLevel(_, _, _, _)
\* level k after the blocks of the first j layers have been added
FlatLevel(ls, n_points, j, k) ==
  IF j = 0 THEN Full(n_points, 0)
  ELSE ArrAdd(FlatLevel(ls, n_points, j-1, k), LayerBlock(ls, n_points, j, k))

\* the device that reset leaves, ls being self.layers after lines 98-99;
\* grid = np.linspace(0, thickness, n_points) is kept by its two parameters
ResetDevice(ls, n_points) ==
  [layers |-> ls,
   thickness |-> PartialThickness(ls, Len(ls)),
   grid |-> [num |-> n_points, stop |-> PartialThickness(ls, Len(ls))],
   levels |-> [k \in LevelNames |-> FlatLevel(ls, n_points, Len(ls), k)],
   interfaces |-> [j \in 1..(Len(ls) - 1) |-> LayerStart(ls, n_points, j + 1)],
   Ef |-> Full(n_points, 0)]

(***************************************************************************)
(* band_diagram.apply_voltage                                              *)
(***************************************************************************)
\* positions ending at the last index instead of n_points
PositionsShort(dev) == <<0>> \o dev.interfaces \o <<Len(dev.Ef) - 1>>

\* positions = [0] + self.interfaces + [n_points]
Positions(dev) == <<0>> \o dev.interfaces \o <<Len(dev.Ef)>>

\* the default target whatever index is given
TargetIndexLast(dev, index) == Len(dev.interfaces)

\* index after the default has been applied (lines 315-317)
TargetIndex(dev, index) == IF index = None THEN Len(dev.interfaces) ELSE index[1]

\* the layer, counted from 1, whose span positions[index] and
\* positions[index+1] delimit; a negative index counts from the end of
\* positions, which has one entry more than there are layers
TargetLayer(dev, index) ==
  (IF TargetIndex(dev, index) < 0 THEN TargetIndex(dev, index) + Len(Positions(dev))
   ELSE TargetIndex(dev, index)) + 1

\* the outcome of building volts (lines 323-327): an IndexError when index
\* or index+1 is outside positions, a ValueError when a block has a
\* negative length
VoltsError(dev, index) ==
  LET pos == Positions(dev)
      i == TargetIndex(dev, index)
  IN IF ~InRange(pos, i) \/ ~InRange(pos, i + 1) THEN "IndexError"
     ELSE IF At(pos, i) < 0 \/ At(pos, i + 1) - At(pos, i) < 0
             \/ Len(dev.Ef) - At(pos, i + 1) < 0 THEN "ValueError"
     ELSE "none"

\* volt from the start of the layer to the end of the grid
VoltsThrough(dev, volt, index) ==
  LET pos == Positions(dev)
      i == TargetIndex(dev, index)
  IN Full(At(pos, i), 0) \o Full(Len(dev.Ef) - At(pos, i), volt)

Volts(dev, volt, index) ==
  LET pos == Positions(dev)
      i == TargetIndex(dev, index)
  IN Full(At(pos, i), 0)
       \o Full(At(pos, i + 1) - At(pos, i), volt)
       \o Full(Len(dev.Ef) - At(pos, i + 1), 0)

\* the device after apply_voltage(volt, index) when volts was built
ApplyVoltageDevice(dev, volt, index) ==
  LET volts == Volts(dev, volt, index)
  IN [dev EXCEPT !.Ef = ArrSub(dev.Ef, volts),
                 !.levels = [k \in LevelNames |-> ArrSub(dev.levels[k], volts)]]

(***************************************************************************)
(* band_diagram.__bend                                                     *)
(***************************************************************************)
\* 1e23 cm-3, the density given to metals
MetalDensity == [m |-> 21684, e |-> 62]

\* 1e4, cm to um
CmToUm == FromInt(10000)

\* 1e-8, um^2 to cm^2
Um2ToCm2 == [m |-> 21990, e |-> -41]

\* the density of the minority carriers taken for a semiconductor
DensityMinority(mat) ==
  IF mat.kind = "metal" THEN MetalDensity
  ELSE IF mat.kind = "semiconductor" THEN (IF is_p_doped(mat) THEN mat.n ELSE mat.p)
  ELSE FZero

\* the density of one layer (lines 156-166)
Density(mat) ==
  IF mat.kind = "metal" THEN MetalDensity
  ELSE IF mat.kind = "semiconductor" THEN (IF is_p_doped(mat) THEN mat.p ELSE mat.n)
  ELSE FZero

\* the layers the loop of lines 155-166 warns about ("Material is not metal
\* nor semic"), in the code's layer numbers
UnknownKinds(dev) ==
  {j - 1 : j \in {l \in 1..Len(dev.layers) :
                   dev.layers[l].material.kind \notin {"metal", "semiconductor"}}}

densities(dev) == [j \in 1..Len(dev.layers) |-> Density(dev.layers[j].material)]

epsilons(dev) == [j \in 1..Len(dev.layers) |-> dev.layers[j].material.epsilon]

thicknesses(dev) == [j \in 1..Len(dev.layers) |-> dev.layers[j].thickness]

\* the two indices read for delta_V (lines 174-177)
RightIndex(position, fermi) == IF fermi THEN position + 1 ELSE position

LeftIndex(position, fermi) == position - 1

\* the array delta_V is read from
DeltaSource(dev, fermi) == IF fermi THEN dev.Ef ELSE dev.levels["E0"]

DeltaVError(dev, position, fermi) ==
  IF InRange(DeltaSource(dev, fermi), RightIndex(position, fermi))
     /\ InRange(DeltaSource(dev, fermi), LeftIndex(position, fermi))
  THEN "none" ELSE "IndexError"

DeltaV(dev, position, fermi) ==
  At(DeltaSource(dev, fermi), RightIndex(position, fermi))
    - At(DeltaSource(dev, fermi), LeftIndex(position, fermi))

\* a for a jump of 1 eV whatever delta_V is
DepletionAUnit(dev, i, delta_V) ==
  FSqrt(FDiv(FMul(FDiv(FMul(FMul(FMul(FromInt(2), EPSILON_0), epsilons(dev)[i]), epsilons(dev)[i+1]),
                       FAdd(FMul(densities(dev)[i], epsilons(dev)[i]),
                            FMul(densities(dev)[i+1], epsilons(dev)[i+1]))),
                  FromInt(1)),
             E_CHARGE))

\* a (lines 179-182), in cm; i is the number of the interface, between
\* layers i and i+1 (the code's layers i-1 and i)
DepletionA(dev, i, delta_V) ==
  FSqrt(FDiv(FMul(FDiv(FMul(FMul(FMul(FromInt(2), EPSILON_0), epsilons(dev)[i]), epsilons(dev)[i+1]),
                       FAdd(FMul(densities(dev)[i], epsilons(dev)[i]),
                            FMul(densities(dev)[i+1], epsilons(dev)[i+1]))),
                  FAbs(EvOf(delta_V))),
             E_CHARGE))

\* depletion_left and depletion_right (lines 183-184), in um
depletion_left(dev, i, delta_V) ==
  FMul(FMul(DepletionA(dev, i, delta_V), FSqrt(FDiv(densities(dev)[i+1], densities(dev)[i]))), CmToUm)

depletion_right(dev, i, delta_V) ==
  FMul(FMul(DepletionA(dev, i, delta_V), FSqrt(FDiv(densities(dev)[i], densities(dev)[i+1]))), CmToUm)

\* the density of the layer is a Python float: 1e23, the doping, or 0.0; that
\* of an undoped semiconductor is ni, a numpy float
PythonFloat(mat) == ~(mat.kind = "semiconductor" /\ mat.n = mat.p)

\* the exception of lines 179-184 at interface i: Python raises on a float
\* divided by 0.0, in the divisor of a (line 180) and in the two ratios of
\* the densities (lines 183-184). A numpy float divided by 0.0 gives inf and
\* nan instead; no such pair of layers is among the inputs. epsilons[i+1]
\* is an IndexError when self.layers has no layer right of the interface
DepletionError(dev, i) ==
  IF i + 1 > Len(dev.layers) THEN "IndexError"
  ELSE IF FAdd(FMul(densities(dev)[i], epsilons(dev)[i]),
          FMul(densities(dev)[i+1], epsilons(dev)[i+1])) = FZero
  THEN "ZeroDivisionError"
  ELSE IF densities(dev)[i] = FZero /\ PythonFloat(dev.layers[i+1].material)
  THEN "ZeroDivisionError"
  ELSE IF densities(dev)[i+1] = FZero /\ PythonFloat(dev.layers[i].material)
  THEN "ZeroDivisionError"
  ELSE "none"

\* the overflow checks (lines 187 and 193) on the two depletion widths
OverflowLeft(dev, i, dl) == FGt(dl, UmOf(thicknesses(dev)[i]))

OverflowRight(dev, i, dr) == FGt(dr, UmOf(thicknesses(dev)[i+1]))

\* the list overflow (lines 173, 188, 194), in the code's layer numbers
Overflow(dev, i, dl, dr) ==
  (IF OverflowLeft(dev, i, dl) THEN <<i - 1>> ELSE <<>>)
    \o (IF OverflowRight(dev, i, dr) THEN <<i>> ELSE <<>>)

\* the number of grid points of a width w in um, w/self.thickness*n_points,
\* in 1/1024 of a point
PointsOf(dev, w) == FScaled(FMul(FDiv(w, UmOf(dev.thickness)), FromInt(Len(dev.Ef))), 10)

\* start and end (lines 187-197); with a clamped width the quotient
\* thicknesses[i]/self.thickness*n_points is taken exactly
BendStart(dev, i, position, dl) ==
  IF OverflowLeft(dev, i, dl)
  THEN RoundDiv(position*dev.thickness - thicknesses(dev)[i]*Len(dev.Ef), dev.thickness)
  ELSE RoundDiv(position*1024 - PointsOf(dev, dl), 1024)

BendEnd(dev, i, position, dr) ==
  IF OverflowRight(dev, i, dr)
  THEN RoundDiv(position*dev.thickness + thicknesses(dev)[i+1]*Len(dev.Ef), dev.thickness)
  ELSE RoundDiv(position*1024 + PointsOf(dev, dr), 1024)

\* c without the sign of delta_V
BendCUnsigned(delta_V) ==
  FDiv(FMul(Um2ToCm2, E_CHARGE), FMul(FromInt(2), EPSILON_0))

\* c (line 203)
BendC(delta_V) ==
  FDiv(FMul(FMul(FromInt(Sgn(delta_V)), Um2ToCm2), E_CHARGE), FMul(FromInt(2), EPSILON_0))

\* the grid indices of self.grid[lo:hi] for 0 <= lo
SliceIndices(dev, lo, hi) ==
  [j \in 1..(IF hi < lo THEN 0 ELSE (IF hi > dev.grid.num THEN dev.grid.num ELSE hi) - lo) |-> lo + j - 1]

\* the outcome of building bending (lines 204-209) and adding it (lines
\* 211-215): np.zeros of a negative length raises, and so does adding an
\* array whose length is not n_points
BendingError(dev, start, position, end) ==
  IF start < 0 \/ Len(dev.Ef) - end < 0 THEN "ValueError"
  ELSE IF start + Len(SliceIndices(dev, start, position)) + Len(SliceIndices(dev, position, end))
            + (Len(dev.Ef) - end) # Len(dev.Ef) THEN "ValueError"
  ELSE "none"

\* the spacing of self.grid (line 102), in um
GridStep(dev) == FDiv(UmOf(dev.thickness), FromInt(dev.grid.num - 1))

\* self.grid[position] - position*self.thickness/n_points in um, the two
\* terms brought to the denominator n_points*(num - 1)
GridShift(dev, position) ==
  FDiv(FMul(FromInt(position*(Len(dev.Ef) - dev.grid.num + 1)), UmOf(dev.thickness)),
       FromInt(Len(dev.Ef)*(dev.grid.num - 1)))

\* self.grid[k] - position*self.thickness/n_points + w, the base of the
\* square of lines 206-207, grid[k] being k*step
Base(k, position, step, x0, w) == FAdd(FAdd(FMul(FromInt(k - position), step), x0), w)

\* the larger of two floats
FMax(a, b) == IF FGt(a, b) THEN a ELSE b

\* The base is linear in k, so that over the grid indices ks of a slice it
\* is largest at an end. Lengths are counted in units of 2^-s um, s being
\* such that neither |w| nor the base on ks reaches 2^(P-1) units
Scale(w, position, ks, step, x0) ==
  -FMax(FAbs(w), FMax(FAbs(Base(ks[1], position, step, x0, w)),
                      FAbs(Base(ks[Len(ks)], position, step, x0, w)))).e - 1

\* the integer nearest to V * 2^t
Shifted(V, t) ==
  IF t >= 0 THEN V*Pow2(t)
  ELSE IF -t > 30 THEN 0
  ELSE (V + Pow2(-t - 1)) \div Pow2(-t)

\* the integer nearest to m * U^2 * 2^(t-P), |m| and |U| below 2^(P+1)
Squared(m, U, t) == Shifted(((m*U + Pow2(P - 1)) \div Pow2(P))*U, t)

\* coef * base^2 in EUnit on the grid indices ks, the base taken in fixed
\* point: H, X0 and W are step, x0 and w in units of 2^-(s+P) um
ProfileIn(coef, position, ks, H, X0, W, s) ==
  [j \in 1..Len(ks) |->
     Squared(coef.m, ((ks[j] - position)*H + X0 + W + Pow2(P - 1)) \div Pow2(P),
             coef.e + P - 2*s)]

ProfileAt(coef, w, position, ks, step, x0, s) ==
  ProfileIn(coef, position, ks, FScaled(step, s + P), FScaled(x0, s + P), FScaled(w, s + P), s)

\* coef*(self.grid[lo:hi] - position*self.thickness/n_points + w)**2 (lines
\* 206-207) in EUnit, ks being the grid indices of the slice
Profile(dev, coef, w, position, ks) ==
  IF Len(ks) = 0 THEN <<>>
  ELSE ProfileAt(coef, w, position, ks, GridStep(dev), GridShift(dev, position),
                 Scale(w, position, ks, GridStep(dev), GridShift(dev, position)))

\* c*densities[i]/epsilons[i] of lines 206-207, in EUnit per um^2
Coefficient(c, density, epsilon) == FMul(FDiv(FMul(c, density), epsilon), FromInt(EUnit))

\* bending (lines 204-209), dl and dr being depletion_left and
\* depletion_right
Bending(dev, i, position, delta_V, dl, dr, start, end) ==
  Full(start, 0)
    \o Profile(dev, Coefficient(BendC(delta_V), densities(dev)[i], epsilons(dev)[i]), dl,
               position, SliceIndices(dev, start, position))
    \o Profile(dev, Coefficient(FNeg(BendC(delta_V)), densities(dev)[i+1], epsilons(dev)[i+1]),
               FNeg(dr), position, SliceIndices(dev, position, end))
    \o Full(Len(dev.Ef) - end, 0)

\* the bending added to E0 only
AddBendingE0(dev, fermi, bending) ==
  IF fermi THEN [dev EXCEPT !.Ef = ArrAdd(dev.Ef, bending)]
  ELSE [dev EXCEPT !.levels["E0"] = ArrAdd(dev.levels["E0"], bending)]

\* the bending added in place to arrays that the first layer's material
\* shares: its levels follow the first grid point
AddBendingShared(dev, fermi, bending) ==
  IF fermi THEN [dev EXCEPT !.Ef = ArrAdd(dev.Ef, bending)]
  ELSE [dev EXCEPT !.levels = [k \in LevelNames |-> ArrAdd(dev.levels[k], bending)],
                   !.layers[1].material.levels =
                      [k \in LevelNames |-> @[k] + (IF Len(bending) > 0 THEN bending[1] ELSE 0)]]

\* the bending added to Ef in both modes
AddBendingEf(dev, fermi, bending) ==
  [dev EXCEPT !.Ef = ArrAdd(dev.Ef, bending),
              !.levels = IF fermi THEN dev.levels
                         ELSE [k \in LevelNames |-> ArrAdd(dev.levels[k], bending)]]

\* the bending added to Ec, Ev and E0 in both modes
AddBendingBoth(dev, fermi, bending) ==
  [dev EXCEPT !.Ef = IF fermi THEN ArrAdd(dev.Ef, bending) ELSE dev.Ef,
              !.levels = [k \in LevelNames |-> ArrAdd(dev.levels[k], bending)]]

\* the accumulation (lines 211-215)
AddBending(dev, fermi, bending) ==
  IF fermi THEN [dev EXCEPT !.Ef = ArrAdd(dev.Ef, bending)]
  ELSE [dev EXCEPT !.levels = [k \in LevelNames |-> ArrAdd(dev.levels[k], bending)]]

RECURSIVE BendFrom(_, _, _, _)
\* lines 203-215 of the pass at interface i, and the rest of the loop:
\* bending is built and added
BendWindow(dev, fermi, i, warned, position, delta_V, dl, dr, start, end) ==
  IF BendingError(dev, start, position, end) # "none"
  THEN [dev |-> dev, raised |-> BendingError(dev, start, position, end), warned |-> warned]
  ELSE BendFrom(AddBending(dev, fermi, Bending(dev, i, position, delta_V, dl, dr, start, end)),
                fermi, i + 1, warned)

\* lines 186-199 at interface i: the overflow check, start and end
BendWidths(dev, fermi, i, warned, position, delta_V, dl, dr) ==
  BendWindow(dev, fermi, i,
             IF Overflow(dev, i, dl, dr) # <<>> THEN Append(warned, Overflow(dev, i, dl, dr))
             ELSE warned,
             position, delta_V, dl, dr,
             BendStart(dev, i, position, dl), BendEnd(dev, i, position, dr))

\* lines 179-184 at interface i: the two depletion widths
BendInterface(dev, fermi, i, warned, position, delta_V) ==
  BendWidths(dev, fermi, i, warned, position, delta_V,
             depletion_left(dev, i, delta_V), depletion_right(dev, i, delta_V))

\* the loop over the interfaces (lines 172-215) from interface i on: the
\* device it leaves, the exception that ended it and the overflow lists it
\* warned about
BendFrom(dev, fermi, i, warned) ==
  IF i > Len(dev.interfaces) THEN [dev |-> dev, raised |-> "none", warned |-> warned]
  ELSE IF DeltaVError(dev, dev.interfaces[i], fermi) # "none"
  THEN [dev |-> dev, raised |-> DeltaVError(dev, dev.interfaces[i], fermi), warned |-> warned]
  ELSE IF DepletionError(dev, i) # "none"
  THEN [dev |-> dev, raised |-> DepletionError(dev, i), warned |-> warned]
  ELSE BendInterface(dev, fermi, i, warned, dev.interfaces[i],
                     DeltaV(dev, dev.interfaces[i], fermi))

\* __bend(fermi)
BendPass(dev, fermi) == BendFrom(dev, fermi, 1, <<>>)

\* the outcome of bend(TRUE) whose two passes left first and second
BendBoth(first, second) ==
  [dev |-> second.dev, raised |-> second.raised, warned |-> first.warned \o second.warned]

\* line 141-142: the pass on Ef is made when fermi, first being what the
\* pass on the levels left
BendThen(first, fermi) ==
  IF fermi /\ first.raised = "none" THEN BendBoth(first, BendPass(first.dev, TRUE)) ELSE first

\* bend(fermi): the pass on the levels, then the pass on Ef when fermi
\* (lines 140-142)
BendDevice(dev, fermi) == BendThen(BendPass(dev, FALSE), fermi)

(***************************************************************************)
(* The inputs of the model                                                 *)
(***************************************************************************)
\* test_reset and others: p-Si/n-Si, 1 um each
Homojunction == <<layer(1000, Si_p15), layer(1000, Si_n15)>>

\* test_densities: p-Si/Al, 1 um each
Contact == <<layer(1000, Si_p15), layer(1000, Al)>>

\* three layers thinner than their depletion widths
ThinStack == <<layer(100, Si_n15), layer(100, Si_p15), layer(100, Si_n15)>>

\* a first and a last layer much thinner than the rest
ThinFirst == <<layer(1, Si_p15), layer(1000, Si_n15)>>

ThinLast == <<layer(1000, Si_p15), layer(1, Si_n15)>>

\* an artificial material with the levels of an oxide: epsilon 3.9
Oxide == artificial([m |-> 31949, e |-> -13], 450000, -450000, 90000)

\* a metal, the artificial material and a doped semiconductor, 1 um each
Gate == <<layer(1000, Al), layer(1000, Oxide), layer(1000, Si_p15)>>

\* three layers of 1 um, each wider than one depletion width and the middle
\* one narrower than two
Npn == <<layer(1000, Si_n15), layer(1000, Si_p15), layer(1000, Si_n15)>>

\* two layers of the same material
Uniform == <<layer(1000, Si_p15), layer(1000, Si_p15)>>

Stacks == {Homojunction, Contact, ThinStack, ThinFirst, ThinLast, Gate, Npn, Uniform}

\* the point counts given explicitly
NPoints == {7, 12}

\* the calls of the constructor
Constructions ==
  {[layers |-> Homojunction, n_points |-> Some(7)]}
    \cup {[layers |-> ls, n_points |-> Some(12)] : ls \in Stacks}

\* the arguments given to reset when it is given any
ResetStacks == {Homojunction}

ResetNPoints == {7}

\* the voltages applied, in EUnit
Voltages == {-1*EUnit, 2*EUnit}

(***************************************************************************)
(* State                                                                   *)
(***************************************************************************)
VARIABLES
  layers,       \* self.layers
  thickness,    \* self.thickness
  grid,         \* self.grid
  levels,       \* self.levels
  interfaces,   \* self.interfaces
  Ef,           \* self.Ef
  constructed,  \* the arguments __init__ was called with
  ncalls,       \* the number of calls made since
  last,         \* the last call, its arguments and its outcome
  since,        \* what was called since the device was last flat
  twin          \* levels, Ef and interfaces of a second device, constructed
                \* with the same list of layers and the same n_points

vars ==
  <<layers, thickness, grid, levels, interfaces, Ef, constructed, ncalls, last, since, twin>>

\* the attributes of the device as one value
Device ==
  [layers |-> layers, thickness |-> thickness, grid |-> grid, levels |-> levels,
   interfaces |-> interfaces, Ef |-> Ef]

Becomes(dev) ==
  /\ layers' = dev.layers
  /\ thickness' = dev.thickness
  /\ grid' = dev.grid
  /\ levels' = dev.levels
  /\ interfaces' = dev.interfaces
  /\ Ef' = dev.Ef

\* what is kept of the second device
TwinOf(dev) == [levels |-> dev.levels, Ef |-> dev.Ef, interfaces |-> dev.interfaces]

\* n_points after its default has been applied
PointCount(n_points) == IF n_points = None THEN DefaultNPoints ELSE n_points[1]

\* nothing called yet on a flat device of nlayers layers: the number of bend
\* calls, per layer the sum and the number of the voltages applied to it,
\* and the number of apply_voltage calls that used the default target
Flat(nlayers) ==
  [bends |-> 0, applied |-> [j \in 1..nlayers |-> 0], times |-> [j \in 1..nlayers |-> 0],
   defaults |-> 0]

\* band_diagram(ls, n_points): __init__ passes its arguments to reset
Init ==
  \E c \in Constructions :
    /\ LET dev == ResetDevice(c.layers, PointCount(c.n_points))
       IN /\ layers = dev.layers
          /\ thickness = dev.thickness
          /\ grid = dev.grid
          /\ levels = dev.levels
          /\ interfaces = dev.interfaces
          /\ Ef = dev.Ef
          /\ twin = TwinOf(dev)
    /\ constructed = c
    /\ ncalls = 0
    /\ last = [op |-> "__init__", raised |-> "none"]
    /\ since = Flat(Len(c.layers))

\* reset(ls, n_points); ls = <<>> is the default []. The call is recorded
\* with what had been done to the device it was made on
Reset(ls, n_points) ==
  /\ ncalls < MaxCalls
  /\ LET dev == ResetDevice(IF ls # <<>> THEN ls ELSE layers, PointCount(n_points))
     IN /\ Becomes(dev)
        /\ since' = Flat(Len(dev.layers))
  /\ last' = [op |-> "reset", layers |-> ls, n_points |-> n_points, raised |-> "none",
              bent |-> since.bends > 0,
              biased |-> \E j \in DOMAIN since.times : since.times[j] > 0]
  /\ ncalls' = ncalls + 1
  /\ UNCHANGED <<constructed, twin>>

\* bend(fermi)
Bend(fermi) ==
  /\ ncalls < MaxCalls
  /\ \E out \in {BendDevice(Device, fermi)} :
       /\ Becomes(out.dev)
       /\ last' = [op |-> "bend", fermi |-> fermi, raised |-> out.raised,
                   warned |-> out.warned, unknown |-> UnknownKinds(Device),
                   densities |-> densities(Device)]
  /\ since' = [since EXCEPT !.bends = @ + 1]
  /\ ncalls' = ncalls + 1
  /\ UNCHANGED <<constructed, twin>>

\* apply_voltage(volt, index)
ApplyVoltage(volt, index) ==
  /\ ncalls < MaxCalls
  /\ IF VoltsError(Device, index) = "none"
     THEN /\ Becomes(ApplyVoltageDevice(Device, volt, index))
          /\ since' = [since EXCEPT !.applied[TargetLayer(Device, index)] = @ + volt,
                                    !.times[TargetLayer(Device, index)] = @ + 1,
                                    !.defaults = @ + (IF index = None THEN 1 ELSE 0)]
     ELSE UNCHANGED <<layers, thickness, grid, levels, interfaces, Ef, since>>
  /\ last' = [op |-> "apply_voltage", volt |-> volt, index |-> index,
              raised |-> VoltsError(Device, index)]
  /\ ncalls' = ncalls + 1
  /\ UNCHANGED <<constructed, twin>>

\* the indices a caller gives: none, a layer, or -1
Indices == {None} \cup {Some(i) : i \in -1..(Len(layers) - 1)}

Next ==
  \/ Reset(<<>>, None)
  \/ \E ls \in {<<>>} \cup ResetStacks, n \in ResetNPoints : Reset(ls, Some(n))
  \/ \E fermi \in BOOLEAN : Bend(fermi)
  \/ \E volt \in Voltages, index \in Indices : ApplyVoltage(volt, index)

Spec == Init /\ [][Next]_vars

(***************************************************************************)
(* Devices bent right after their construction                             *)
(***************************************************************************)
\* test_layer_thick: p-Si/n-Si doped 1e16, both layers of the same thickness
\* between 1 nm and 10 um, 10000 points
TestThicknesses == {1, 215, 10000}

FinePoints == 10000

\* test_semiconductor_types: two semiconductors of the list, 1 um each, the
\* default point count; test_semi_metal_types: a metal and a semiconductor
\* of the lists, 1 um each, 10000 points
AsTested(c) ==
  LET a == c.layers[1]
      b == c.layers[2]
  IN /\ Len(c.layers) = 2
     /\ a.thickness = b.thickness
     /\ \/ /\ a.material = Si_p16 /\ b.material = Si_n16
           /\ a.thickness \in 1..10000
           /\ PointCount(c.n_points) = FinePoints
        \/ /\ a.material \in list_of_semiconductors /\ b.material \in list_of_semiconductors
           /\ a.thickness = 1000
           /\ PointCount(c.n_points) = DefaultNPoints
        \/ /\ a.material \in list_of_metals /\ b.material \in list_of_semiconductors
           /\ a.thickness = 1000
           /\ PointCount(c.n_points) = FinePoints

\* point counts below those of the tests
CoarsePoints == {7, 12, 25, 50, 100}

\* the two-layer devices constructed: those of the tests, and the
\* homojunction and the contact on fewer points
FreshConstructions ==
  {[layers |-> ls, n_points |-> Some(n)] : ls \in {Homojunction, Contact}, n \in CoarsePoints}
    \cup {[layers |-> <<layer(t, Si_p16), layer(t, Si_n16)>>, n_points |-> Some(FinePoints)] :
            t \in TestThicknesses}
    \cup {[layers |-> <<layer(1000, a), layer(1000, b)>>, n_points |-> None] :
            a \in list_of_semiconductors, b \in list_of_semiconductors}
    \cup {[layers |-> <<layer(1000, a), layer(1000, b)>>, n_points |-> Some(FinePoints)] :
            a \in {Al}, b \in {Si_i}}

FreshInit ==
  \E c \in FreshConstructions :
    /\ LET dev == ResetDevice(c.layers, PointCount(c.n_points))
       IN /\ layers = dev.layers
          /\ thickness = dev.thickness
          /\ grid = dev.grid
          /\ levels = dev.levels
          /\ interfaces = dev.interfaces
          /\ Ef = dev.Ef
          /\ twin = TwinOf(dev)
    /\ constructed = c
    /\ ncalls = 0
    /\ last = [op |-> "__init__", raised |-> "none"]
    /\ since = Flat(Len(c.layers))

FreshNext == since.bends < MaxBends /\ \E fermi \in BOOLEAN : Bend(fermi)

FreshSpec == FreshInit /\ [][FreshNext]_vars

(***************************************************************************)
(* C1                                                                      *)
(***************************************************************************)
\* 10 meV, the tolerance of E_is_continuous
Tolerance == 1000

\* the largest step of E0 between two adjacent grid points is within the
\* tolerance
E_is_continuous ==
  \A i \in 1..(Len(levels["E0"]) - 1) :
    Abs(levels["E0"][i + 1] - levels["E0"][i]) <= Tolerance

\* bend was the first call on the device
BentFresh == ncalls = 1 /\ last.op = "bend"

Span(dev, j) == Positions(dev)[j]..(Positions(dev)[j + 1] - 1)

\* Ef[p] - Ef[p-1] as Python reads it
Jump(dev, p) == At(dev.Ef, p) - At(dev.Ef, p - 1)

\* both layers next to interface q own a grid point
Owned(dev, q) == Span(dev, q) # {} /\ Span(dev, q + 1) # {}

(***************************************************************************)
(* C2                                                                      *)
(***************************************************************************)
\* C2: in every reachable state every grid point is owned by one layer, and
\* there Ec - Ev and E0 - Ec are those of the material of that layer
C2_GapInvariant ==
  /\ UNION {Span(Device, j) : j \in 1..Len(layers)} = 0..(Len(Ef) - 1)
  /\ \A j \in 1..Len(layers) :
       LET gap == layers[j].material.levels["Ec"] - layers[j].material.levels["Ev"]
           work == layers[j].material.levels["E0"] - layers[j].material.levels["Ec"]
       IN \A i \in Span(Device, j) :
            /\ levels["Ec"][i + 1] - levels["Ev"][i + 1] = gap
            /\ levels["E0"][i + 1] - levels["Ec"][i + 1] = work

\* a device that was bent and then biased, whose Ec is no longer flat inside
\* a layer
C2_Witness ==
  /\ since.bends > 0
  /\ last.op = "apply_voltage" /\ last.raised = "none"
  /\ \E j \in 1..Len(layers) : \E i \in Span(Device, j), k \in Span(Device, j) :
       levels["Ec"][i + 1] # levels["Ec"][k + 1]

(***************************************************************************)
(* C3                                                                      *)
(***************************************************************************)
\* the layer a call of apply_voltage names, None being the last one
NamedLayer(index) == IF index = None THEN Len(layers) ELSE index[1] + 1

\* C3: apply_voltage(volt, index) on layer index subtracts volt from Ec, Ev,
\* E0 and Ef at the grid points from the start of that layer up to, not
\* including, the start of the next, changes them nowhere else, and leaves
\* interfaces and layers alone
C3_Frame ==
  [][(last'.op = "apply_voltage" /\ ncalls' = ncalls + 1
        /\ NamedLayer(last'.index) \in 1..Len(layers))
     => LET j == NamedLayer(last'.index)
            lo == IF j = 1 THEN 0 ELSE interfaces[j - 1]
            hi == IF j = Len(layers) THEN Len(Ef) ELSE interfaces[j]
            Shift(i) == IF lo <= i /\ i < hi THEN last'.volt ELSE 0
        IN /\ last'.raised = "none"
           /\ Len(Ef') = Len(Ef)
           /\ \A i \in 0..(Len(Ef) - 1) : Ef'[i + 1] = Ef[i + 1] - Shift(i)
           /\ \A k \in LevelNames :
                /\ Len(levels'[k]) = Len(levels[k])
                /\ \A i \in 0..(Len(Ef) - 1) : levels'[k][i + 1] = levels[k][i + 1] - Shift(i)
           /\ interfaces' = interfaces
           /\ layers' = layers]_vars

\* the first of three layers was biased: its points moved, the last did not
C3_Witness ==
  /\ last.op = "apply_voltage" /\ last.index = Some(0) /\ last.raised = "none"
  /\ Len(layers) = 3
  /\ since.bends = 0 /\ since.times = <<1, 0, 0>>
  /\ Ef[1] = -last.volt /\ Ef[Len(Ef)] = 0

(***************************************************************************)
(* C4                                                                      *)
(***************************************************************************)
\* only the default target was biased since the device was last flat
OnlyDefault ==
  /\ since.bends = 0
  /\ since.defaults > 0
  /\ \A j \in 1..Len(layers) :
       since.times[j] = IF j = Len(layers) THEN since.defaults ELSE 0

\* C4: after apply_voltage calls with the default target on a flat device,
\* the jump of Ef at the last interface p is minus the sum of the voltages
C4_Accumulates ==
  (OnlyDefault /\ Len(interfaces) >= 1)
    => LET p == interfaces[Len(interfaces)]
       IN /\ InRange(Ef, p)
          /\ Jump(Device, p) = -since.applied[Len(layers)]

(***************************************************************************)
(* C5                                                                      *)
(***************************************************************************)
\* only layer j was biased, once, since the device was last flat
OnlyOnce(j) ==
  /\ since.bends = 0
  /\ \A k \in 1..Len(layers) : since.times[k] = IF k = j THEN 1 ELSE 0

\* the flat device with -volt applied to the layer left of interface q
Mirrored(q, volt) ==
  ApplyVoltageDevice(ResetDevice(layers, Len(Ef)), -volt, Some(q - 1))

\* C5 as amended: +V on the layer right of an interface and -V on the layer
\* left of it, each on the flat device, give the same jump of Ef at the
\* interface, -V, when both layers own a grid point
C5_EqualJumps ==
  \A q \in 1..Len(interfaces) :
    (OnlyOnce(q + 1) /\ Owned(Device, q))
      => /\ Jump(Device, interfaces[q]) = -since.applied[q + 1]
         /\ Jump(Mirrored(q, since.applied[q + 1]), interfaces[q]) = -since.applied[q + 1]

\* C5 as stated: the two jumps are opposite
C5_Antisymmetric ==
  \A q \in 1..Len(interfaces) :
    (OnlyOnce(q + 1) /\ Owned(Device, q))
      => Jump(Device, interfaces[q])
           = -Jump(Mirrored(q, since.applied[q + 1]), interfaces[q])

\* the second layer of the homojunction was biased once
C5_Witness ==
  /\ layers = Homojunction
  /\ OnlyOnce(2) /\ Owned(Device, 1)
  /\ last.op = "apply_voltage" /\ last.raised = "none"
  /\ Jump(Device, interfaces[1]) = -last.volt

(***************************************************************************)
(* C6                                                                      *)
(***************************************************************************)
\* reset() followed by apply_voltage(-volt, index=0)
ResetThenLeft(volt) ==
  ApplyVoltageDevice(ResetDevice(layers, DefaultNPoints), -volt, Some(0))

\* C6: on a two-layer device the jump Ef[i] - Ef[i-1] at the interface i
\* after apply_voltage(V, index=1) from the flat state is the jump, at the
\* same i, after reset() and apply_voltage(-V, index=0)
C6_SameJump ==
  (Len(layers) = 2 /\ OnlyOnce(2))
    => LET i == interfaces[1]
           other == ResetThenLeft(since.applied[2])
       IN /\ InRange(Ef, i)
          /\ InRange(other.Ef, i)
          /\ Jump(Device, i) = Jump(other, i)

(***************************************************************************)
(* C7                                                                      *)
(***************************************************************************)
\* every layer was biased once, with the same voltage, since the device was
\* last flat
EveryLayerOnce ==
  /\ since.bends = 0
  /\ \A j \in 1..Len(layers) : since.times[j] = 1 /\ since.applied[j] = since.applied[1]

\* C7: the same voltage applied once to every layer of a flat device moves
\* every point of Ef by that voltage, once
C7_Translation ==
  EveryLayerOnce => \A i \in 1..Len(Ef) : Ef[i] = -since.applied[1]

\* each of three layers was biased once with the same voltage
C7_Witness ==
  /\ EveryLayerOnce
  /\ Len(layers) = 3
  /\ Ef[1] = -last.volt /\ Ef[Len(Ef)] = -last.volt /\ last.volt # 0

(***************************************************************************)
(* C8                                                                      *)
(***************************************************************************)
\* where the layers of ls start on a grid of n points, and where the last ends
Starts(ls, n) ==
  [j \in 1..(Len(ls) + 1) |->
     RoundDiv(PartialThickness(ls, j - 1)*n, PartialThickness(ls, Len(ls)))]

\* dev is a device just built from ls with n points: its arrays and its
\* interfaces, point by point
IsFresh(dev, ls, n) ==
  /\ dev.layers = ls
  /\ dev.grid.num = n
  /\ Len(dev.Ef) = n
  /\ \A i \in 1..n : dev.Ef[i] = 0
  /\ \A k \in LevelNames : Len(dev.levels[k]) = n
  /\ Starts(ls, n)[1] = 0 /\ Starts(ls, n)[Len(ls) + 1] = n
  /\ \A j \in 1..Len(ls) :
       LET lo == Starts(ls, n)[j]
           hi == Starts(ls, n)[j + 1]
       IN \A k \in LevelNames : \A i \in lo..(hi - 1) :
            dev.levels[k][i + 1] = ls[j].material.levels[k]
  /\ Len(dev.interfaces) = Len(ls) - 1
  /\ \A j \in 1..(Len(ls) - 1) : dev.interfaces[j] = Starts(ls, n)[j + 1]

\* C8: reset() leaves the arrays and interfaces of a device just built from
\* the stored layers with the point count of the call, whatever was called
\* before; reset(new_layers) does so for new_layers and stores them
C8_ResetIsFresh ==
  [][(last'.op = "reset" /\ ncalls' = ncalls + 1)
     => IsFresh(Device', IF last'.layers = <<>> THEN layers ELSE last'.layers,
                PointCount(last'.n_points))]_vars

\* reset() was called on a device that had been bent and biased
C8_Witness ==
  /\ last.op = "reset" /\ last.layers = <<>> /\ last.n_points = None
  /\ last.bent /\ last.biased
  /\ IsFresh(Device, layers, DefaultNPoints)

(***************************************************************************)
(* C9                                                                      *)
(***************************************************************************)
\* C9: Ec, Ev, E0, Ef and the grid always have the length the device was
\* constructed with
C9_LengthFixed ==
  /\ Len(Ef) = PointCount(constructed.n_points)
  /\ grid.num = PointCount(constructed.n_points)
  /\ \A k \in LevelNames : Len(levels[k]) = PointCount(constructed.n_points)

(***************************************************************************)
(* C10                                                                     *)
(***************************************************************************)
\* C10: there are N_layers - 1 interfaces, strictly increasing and strictly
\* between 0 and N
C10_Interfaces ==
  /\ Len(interfaces) = Len(layers) - 1
  /\ \A q \in 1..Len(interfaces) : 0 < interfaces[q] /\ interfaces[q] < Len(Ef)
  /\ \A q \in 1..(Len(interfaces) - 1) : interfaces[q] < interfaces[q + 1]

(***************************************************************************)
(* C11                                                                     *)
(***************************************************************************)
\* the device is as __init__ or reset, which __init__ runs, has just left it
JustBuilt == last.op \in {"__init__", "reset"} /\ last.raised = "none"

\* C11: on a device just built the spans [start_j, end_j) of lines 111-113
\* follow each other from 0 to n_points (the first starts at 0, each ends
\* where the next starts, which is the interface recorded for it, the last
\* ends at n_points), every grid point of span j has the Ec, Ev and E0 of
\* the material of layer j, and Ef is zero everywhere
C11_Partition ==
  JustBuilt
    => /\ LayerStart(layers, Len(Ef), 1) = 0
       /\ LayerEnd(layers, Len(Ef), Len(layers)) = Len(Ef)
       /\ Len(interfaces) = Len(layers) - 1
       /\ \A j \in 1..(Len(layers) - 1) :
            /\ LayerEnd(layers, Len(Ef), j) = LayerStart(layers, Len(Ef), j + 1)
            /\ interfaces[j] = LayerStart(layers, Len(Ef), j + 1)
       /\ \A j \in 1..Len(layers) :
            \A i \in LayerStart(layers, Len(Ef), j)..(LayerEnd(layers, Len(Ef), j) - 1) :
              \A k \in LevelNames :
                /\ Len(levels[k]) = Len(Ef)
                /\ levels[k][i + 1] = layers[j].material.levels[k]
       /\ \A i \in 1..Len(Ef) : Ef[i] = 0

\* a device of three layers was constructed, each layer owning grid points
\* and the layers differing in their levels
C11_Witness ==
  /\ ncalls = 0 /\ last.op = "__init__"
  /\ Len(layers) = 3
  /\ 0 < interfaces[1] /\ interfaces[1] < interfaces[2] /\ interfaces[2] < Len(Ef)
  /\ levels["Ec"][interfaces[1]] # levels["Ec"][interfaces[1] + 1]
  /\ levels["Ec"][interfaces[2]] # levels["Ec"][interfaces[2] + 1]

(***************************************************************************)
(* Construction from any input                                             *)
(***************************************************************************)
\* the exception that ends reset(ls, n_points) on self.layers = ls, for a
\* total thickness that is not negative: np.linspace and np.zeros refuse a
\* negative n_points (lines 102-106), the quotient of line 111 has the total
\* thickness as its divisor, np.zeros and np.ones refuse a negative length
\* (lines 115-117)
ResetError(ls, n_points) ==
  IF n_points < 0 THEN "ValueError"
  ELSE IF PartialThickness(ls, Len(ls)) = 0 THEN "ZeroDivisionError"
  ELSE IF \E j \in 1..Len(ls) :
            \/ LayerStart(ls, n_points, j) < 0
            \/ LayerEnd(ls, n_points, j) - LayerStart(ls, n_points, j) < 0
            \/ n_points - LayerEnd(ls, n_points, j) < 0
  THEN "ValueError"
  ELSE "none"

\* a first layer of no thickness, and a single layer of no thickness
ZeroFirst == <<layer(0, Si_p15), layer(1000, Si_n15)>>

ZeroOnly == <<layer(0, Si_p15)>>

\* the arguments given to the constructor: [] is <<>>
CtorStacks == {<<>>, Homojunction, ZeroFirst, ZeroOnly}

CtorPoints == {Some(-1), Some(0), Some(7)}

\* an object none of whose attributes has been set
NoDevice ==
  [layers |-> <<>>, thickness |-> 0, grid |-> [num |-> 0, stop |-> 0],
   levels |-> [k \in LevelNames |-> <<>>], interfaces |-> <<>>, Ef |-> <<>>]

\* before the constructor is called
CtorInit ==
  /\ layers = NoDevice.layers
  /\ thickness = NoDevice.thickness
  /\ grid = NoDevice.grid
  /\ levels = NoDevice.levels
  /\ interfaces = NoDevice.interfaces
  /\ Ef = NoDevice.Ef
  /\ twin = TwinOf(NoDevice)
  /\ constructed = [layers |-> <<>>, n_points |-> None]
  /\ ncalls = 0
  /\ last = [op |-> "none", raised |-> "none"]
  /\ since = Flat(0)

\* band_diagram(ls, n_points), lines 73-76: [] is answered by a printed
\* line and an object without attributes; an exception of reset leaves the
\* caller without an object
Construct(ls, n_points) ==
  /\ last.op = "none"
  /\ constructed' = [layers |-> ls, n_points |-> n_points]
  /\ IF ls = <<>>
     THEN /\ last' = [op |-> "__init__", raised |-> "none", printed |-> TRUE, object |-> TRUE]
          /\ UNCHANGED <<layers, thickness, grid, levels, interfaces, Ef, twin, since>>
     ELSE IF ResetError(ls, PointCount(n_points)) # "none"
     THEN /\ last' = [op |-> "__init__", raised |-> ResetError(ls, PointCount(n_points)),
                      printed |-> FALSE, object |-> FALSE]
          /\ UNCHANGED <<layers, thickness, grid, levels, interfaces, Ef, twin, since>>
     ELSE /\ Becomes(ResetDevice(ls, PointCount(n_points)))
          /\ twin' = TwinOf(ResetDevice(ls, PointCount(n_points)))
          /\ since' = Flat(Len(ls))
          /\ last' = [op |-> "__init__", raised |-> "none", printed |-> FALSE, object |-> TRUE]
  /\ UNCHANGED ncalls

\* a method called on the object that has no attributes: reset(), bend and
\* apply_voltage all read self.layers or self.interfaces first
Unusable ==
  /\ last.op = "__init__" /\ last.object /\ layers = <<>>
  /\ ncalls < MaxCalls
  /\ last' = [op |-> "call", raised |-> "AttributeError", object |-> TRUE]
  /\ ncalls' = ncalls + 1
  /\ UNCHANGED <<layers, thickness, grid, levels, interfaces, Ef, twin, since, constructed>>

CtorNext ==
  \/ \E ls \in CtorStacks, n_points \in CtorPoints : Construct(ls, n_points)
  \/ Unusable
  \/ layers # <<>> /\ Next

CtorSpec == CtorInit /\ [][CtorNext]_vars

(***************************************************************************)
(* C12                                                                     *)
(***************************************************************************)
\* the input the constructor is to refuse: no layer, a layer whose
\* thickness is not positive, a point count that is not positive
Invalid(c) ==
  \/ c.layers = <<>>
  \/ \E j \in 1..Len(c.layers) : c.layers[j].thickness <= 0
  \/ PointCount(c.n_points) <= 0

\* C12: a constructor call on invalid input (an empty list of layers, a
\* layer whose thickness is not positive, a point count that is not positive)
\* ends with an exception and leaves the caller without an object
C12_FailsFast ==
  (last.op = "__init__" /\ Invalid(constructed))
    => (last.raised # "none" /\ ~last.object)

(***************************************************************************)
(* C13                                                                     *)
(***************************************************************************)
\* the step is a call of bend(fermi)
BendStep(fermi) == last'.op = "bend" /\ ncalls' = ncalls + 1 /\ last'.fermi = fermi

\* Ef has a value that apply_voltage alone does not leave anywhere
EfBent == \E i \in 1..Len(Ef) : \A j \in 1..Len(layers) : Ef[i] # -since.applied[j] /\ Ef[i] # 0

\* C13 as stated: bend(fermi=True) adds the bending to Ef only, Ec, Ev and
\* E0 are after the call what they were before it
C13_OnlyFermi == [][BendStep(TRUE) => levels' = levels]_vars

\* C13 amended: bend(fermi=True) changes Ec, Ev and E0 exactly as bend()
\* does, and when that pass raised nothing it makes a second pass that adds
\* its bending to Ef and leaves Ec, Ev and E0 as the first pass left them;
\* bend() leaves Ef as it was
C13_BothPasses ==
  [][/\ BendStep(FALSE) => Ef' = Ef
     /\ BendStep(TRUE)
          => /\ levels' = BendDevice(Device, FALSE).dev.levels
             /\ BendPass(BendDevice(Device, FALSE).dev, TRUE).dev.levels
                  = BendDevice(Device, FALSE).dev.levels
             /\ Ef' = IF BendDevice(Device, FALSE).raised = "none"
                      THEN BendPass(BendDevice(Device, FALSE).dev, TRUE).dev.Ef
                      ELSE Ef]_vars

\* bend(fermi=True) on a biased homojunction: both Ef and E0 were bent
C13_Witness ==
  /\ last.op = "bend" /\ last.fermi /\ last.raised = "none"
  /\ since.bends = 1 /\ since.times = <<0, 1>>
  /\ EfBent
  /\ \E i \in 1..Len(Ef) : \A j \in 1..Len(layers) :
       levels["E0"][i] # layers[j].material.levels["E0"] - since.applied[j]

(***************************************************************************)
(* C14                                                                     *)
(***************************************************************************)
\* every interface has a grid point on its left and one on its right
Healthy == \A i \in 1..Len(interfaces) : 0 < interfaces[i] /\ interfaces[i] < Len(Ef) - 1

\* C14: a bend call that warned of a depletion overflow runs to completion
C14_Completes ==
  (last.op = "bend" /\ last.warned # <<>> /\ Healthy) => last.raised = "none"

(***************************************************************************)
(* C15                                                                     *)
(***************************************************************************)
\* C15: bend on a stack with a layer that is neither a metal nor a
\* semiconductor warns about that layer and completes without raising
C15_Recoverable ==
  (last.op = "bend" /\ last.unknown # {} /\ Healthy) => last.raised = "none"

EditedLists(ls) ==
  {[ls EXCEPT ![1] = layer(100, Si_p16)]}
    \cup (IF Len(ls) < 3 THEN {Append(ls, layer(1000, Al))} ELSE {})
    \cup (IF Len(ls) > 1 THEN {SubSeq(ls, 1, Len(ls) - 1)} ELSE {})

\* the caller edits its list; no method of the device is called
CallerEdits(ls) ==
  /\ ncalls < MaxCalls
  /\ ls # layers
  /\ layers' = ls
  /\ last' = [op |-> "edit", raised |-> "none"]
  /\ ncalls' = ncalls + 1
  /\ UNCHANGED <<thickness, grid, levels, interfaces, Ef, constructed, since, twin>>

\* the homojunction on 7 points
SharedInit == Init /\ constructed = [layers |-> Homojunction, n_points |-> Some(7)]

\* reset is called without a list, so that self.layers stays the caller's list
SharedNext ==
  \/ \E ls \in EditedLists(layers) : CallerEdits(ls)
  \/ \E n_points \in {None, Some(7)} : Reset(<<>>, n_points)
  \/ \E fermi \in BOOLEAN : Bend(fermi)
  \/ \E volt \in Voltages, index \in Indices : ApplyVoltage(volt, index)

SharedSpec == SharedInit /\ [][SharedNext]_vars

(***************************************************************************)
(* C17                                                                     *)
(***************************************************************************)
\* C17: self.layers is a copy of the list given to the constructor: whatever
\* the caller did to its list since, reset() rebuilds the device from the
\* layers it was constructed with, and bend and apply_voltage find them in
\* self.layers
C17_Copy ==
  last.op \in {"reset", "bend", "apply_voltage"}
    => /\ layers = constructed.layers
       /\ last.op = "reset"
            => /\ thickness = PartialThickness(constructed.layers, Len(constructed.layers))
               /\ Len(interfaces) = Len(constructed.layers) - 1

(***************************************************************************)
(* C18                                                                     *)
(***************************************************************************)
\* the depletion widths at interface i limited to the thickness of their
\* layer, as start and end are (lines 187-196)
ClampedLeft(dev, i, dl) == IF OverflowLeft(dev, i, dl) THEN UmOf(thicknesses(dev)[i]) ELSE dl

ClampedRight(dev, i, dr) == IF OverflowRight(dev, i, dr) THEN UmOf(thicknesses(dev)[i+1]) ELSE dr

\* the levels after the pass at interface i when the profile is computed
\* with the limited widths, on the window of the code
ClampedLevels(dev, i, position, delta_V, dl, dr) ==
  AddBending(dev, FALSE,
             Bending(dev, i, position, delta_V, ClampedLeft(dev, i, dl), ClampedRight(dev, i, dr),
                     BendStart(dev, i, position, dl), BendEnd(dev, i, position, dr))).levels

\* C18: when a depletion width exceeds the thickness of its layer, bend on a
\* device of two layers adds to Ec, Ev and E0 the profile computed with the
\* width limited to that thickness
C18_ClampedProfile ==
  [][(BendStep(FALSE) /\ Len(interfaces) = 1 /\ Len(layers) = 2
        /\ last'.raised = "none" /\ last'.warned # <<>>)
     => levels' = ClampedLevels(Device, 1, interfaces[1], DeltaV(Device, interfaces[1], FALSE),
                                depletion_left(Device, 1, DeltaV(Device, interfaces[1], FALSE)),
                                depletion_right(Device, 1, DeltaV(Device, interfaces[1], FALSE)))]_vars

(***************************************************************************)
(* C19                                                                     *)
(***************************************************************************)
RECURSIVE FrozenFrom(_, _, _)
\* the bending of interface i computed on the device before, with the jump
\* delta_V read there, and added to dev
FrozenWidths(before, dev, i, position, delta_V, dl, dr) ==
  FrozenFrom(before,
             AddBending(dev, FALSE,
                        Bending(before, i, position, delta_V, dl, dr,
                                BendStart(before, i, position, dl),
                                BendEnd(before, i, position, dr))),
             i + 1)

FrozenInterface(before, dev, i, position, delta_V) ==
  FrozenWidths(before, dev, i, position, delta_V,
               depletion_left(before, i, delta_V), depletion_right(before, i, delta_V))

\* the pass on the levels from interface i on when every interface reads its
\* jump from the arrays as they were before the pass
FrozenFrom(before, dev, i) ==
  IF i > Len(dev.interfaces) THEN dev
  ELSE FrozenInterface(before, dev, i, dev.interfaces[i],
                       DeltaV(before, dev.interfaces[i], FALSE))

\* C19: the pass of bend() uses at every interface the jump of E0 as it was
\* before the pass, so that its result does not depend on the order of the
\* interfaces
C19_PreBendJumps ==
  [][(BendStep(FALSE) /\ last'.raised = "none" /\ Healthy)
     => levels' = FrozenFrom(Device, Device, 1).levels]_vars

(***************************************************************************)
(* C20                                                                     *)
(***************************************************************************)
\* Ef after the pass on Ef at interface i of dev for the jump delta_V
PairWidths(dev, i, position, delta_V, dl, dr) ==
  AddBending(dev, TRUE,
             Bending(dev, i, position, delta_V, dl, dr,
                     BendStart(dev, i, position, dl), BendEnd(dev, i, position, dr))).Ef

\* Ef after the pass on Ef at the only interface of dev when the jump is
\* read at position and position-1, as it is in E0
PairEf(dev, position) ==
  PairWidths(dev, 1, position, At(dev.Ef, position) - At(dev.Ef, position - 1),
             depletion_left(dev, 1, At(dev.Ef, position) - At(dev.Ef, position - 1)),
             depletion_right(dev, 1, At(dev.Ef, position) - At(dev.Ef, position - 1)))

\* C20: the pass on Ef reads the jump at the same two grid points as the
\* pass on E0, position and position-1: on a device of two layers
\* bend(fermi=True) leaves the Ef that this jump gives
C20_SamePair ==
  [][(BendStep(TRUE) /\ Len(interfaces) = 1 /\ Len(layers) = 2
        /\ last'.raised = "none" /\ Healthy)
     => Ef' = PairEf(BendPass(Device, FALSE).dev, interfaces[1])]_vars

(***************************************************************************)
(* C21                                                                     *)
(***************************************************************************)
RECURSIVE WindowsFrom(_, _, _)
\* start and end of interface i for the widths dl and dr, followed by those
\* of the later interfaces on the device that the pass at interface i leaves
WindowsWidths(dev, fermi, i, position, delta_V, dl, dr) ==
  <<[start |-> BendStart(dev, i, position, dl), end |-> BendEnd(dev, i, position, dr)]>>
    \o WindowsFrom(AddBending(dev, fermi,
                              Bending(dev, i, position, delta_V, dl, dr,
                                      BendStart(dev, i, position, dl),
                                      BendEnd(dev, i, position, dr))),
                   fermi, i + 1)

WindowsInterface(dev, fermi, i, position, delta_V) ==
  WindowsWidths(dev, fermi, i, position, delta_V,
                depletion_left(dev, i, delta_V), depletion_right(dev, i, delta_V))

\* the windows [start, end) of the interfaces from i on in a pass that
\* raises nothing (lines 186-197)
WindowsFrom(dev, fermi, i) ==
  IF i > Len(dev.interfaces) THEN <<>>
  ELSE WindowsInterface(dev, fermi, i, dev.interfaces[i], DeltaV(dev, dev.interfaces[i], fermi))

\* the pass warned of an overflow of the layer that has the number j in the code
WarnedOf(warned, j) ==
  \E k \in 1..Len(warned) : \E m \in 1..Len(warned[k]) : warned[k][m] = j

\* C21: when the windows of two adjacent interfaces share a grid point in a
\* pass of bend() over layers of positive thickness, the pass has warned of
\* an overflow of the layer between them
C21_OverlapWarned ==
  [][(BendStep(FALSE) /\ last'.raised = "none"
        /\ \A j \in 1..Len(layers) : layers[j].thickness > 0)
     => \A i \in 1..(Len(interfaces) - 1) :
          WindowsFrom(Device, FALSE, 1)[i].end > WindowsFrom(Device, FALSE, 1)[i + 1].start
            => WarnedOf(last'.warned, i)]_vars

(***************************************************************************)
(* C22                                                                     *)
(***************************************************************************)
\* C22: the densities a bend call has used are 1e23 for a metal and, for a
\* semiconductor, the larger of n and p (p when p > n, n otherwise); they are
\* positive for every metal and every semiconductor
C22_Majority ==
  last.op = "bend"
    => \A j \in 1..Len(layers) :
         /\ layers[j].material.kind = "metal" => last.densities[j] = MetalDensity
         /\ layers[j].material.kind = "semiconductor"
              => /\ last.densities[j] = IF FGt(layers[j].material.p, layers[j].material.n)
                                        THEN layers[j].material.p ELSE layers[j].material.n
                 /\ ~FGt(layers[j].material.n, last.densities[j])
                 /\ ~FGt(layers[j].material.p, last.densities[j])
         /\ layers[j].material.kind \in {"metal", "semiconductor"}
              => FGt(last.densities[j], FZero)

\* bend on the contact of p-doped silicon and aluminium
C22_Witness ==
  /\ last.op = "bend"
  /\ layers = Contact
  /\ last.densities = <<Si_p15.p, MetalDensity>>
  /\ FGt(Si_p15.p, Si_p15.n)

(***************************************************************************)
(* C23                                                                     *)
(***************************************************************************)
\* no voltage was applied since the device was last flat
Unbiased == \A j \in DOMAIN since.times : since.times[j] = 0

\* C23: bend() leaves Ef as it was, so that Ef is zero at every grid point as
\* long as apply_voltage has not been called since the construction or the
\* last reset; and a call of bend in either mode leaves interfaces, grid,
\* thickness and layers as they were
C23_EfKept ==
  /\ [](Unbiased => \A i \in 1..Len(Ef) : Ef[i] = 0)
  /\ [][/\ BendStep(FALSE) => Ef' = Ef
        /\ (last'.op = "bend" /\ ncalls' = ncalls + 1)
             => /\ interfaces' = interfaces
                /\ grid' = grid
                /\ thickness' = thickness
                /\ layers' = layers]_vars

\* two calls of bend() on a device no voltage was applied to: E0 is bent and
\* Ef is zero
C23_Witness ==
  /\ last.op = "bend" /\ ~last.fermi /\ last.raised = "none"
  /\ since.bends = 2 /\ Unbiased
  /\ \A i \in 1..Len(Ef) : Ef[i] = 0
  /\ \E i \in 1..Len(Ef) : \A j \in 1..Len(layers) :
       levels["E0"][i] # layers[j].material.levels["E0"]

(***************************************************************************)
(* C24                                                                     *)
(***************************************************************************)
\* the jump that the pass reads is zero at every interface of dev
JumpsZero(dev, fermi) ==
  \A i \in 1..Len(dev.interfaces) :
    /\ DeltaVError(dev, dev.interfaces[i], fermi) = "none"
    /\ DeltaV(dev, dev.interfaces[i], fermi) = 0

\* every window of the pass is empty, start and end being the interface
EmptyWindows(dev, fermi) ==
  \A i \in 1..Len(dev.interfaces) :
    /\ WindowsFrom(dev, fermi, 1)[i].start = dev.interfaces[i]
    /\ WindowsFrom(dev, fermi, 1)[i].end = dev.interfaces[i]

\* C24 as stated, for the Fermi mode without voltage: when the jump of Ef is
\* zero at every interface, bend(fermi=True) leaves Ec, Ev, E0 and Ef as
\* they were
C24_FermiFixed ==
  [][(BendStep(TRUE) /\ JumpsZero(Device, TRUE)) => (levels' = levels /\ Ef' = Ef)]_vars

\* C24 amended: when the jump of E0 is zero at every interface, and for
\* bend(fermi=True) the jump of Ef as well, bend leaves Ec, Ev, E0 and Ef as
\* they were and warns of no overflow, and when it raises nothing its
\* windows are empty
C24_FixedPoint ==
  [][(last'.op = "bend" /\ ncalls' = ncalls + 1
        /\ JumpsZero(Device, FALSE) /\ (last'.fermi => JumpsZero(Device, TRUE)))
     => /\ levels' = levels
        /\ Ef' = Ef
        /\ last'.warned = <<>>
        /\ last'.raised = "none"
             => /\ EmptyWindows(Device, FALSE)
                /\ last'.fermi => EmptyWindows(Device, TRUE)]_vars

\* bend(fermi=True) on the flat device of two layers of the same material
C24_Witness ==
  /\ last.op = "bend" /\ last.fermi /\ last.raised = "none"
  /\ layers = Uniform
  /\ Unbiased
  /\ levels = [k \in LevelNames |-> Full(Len(Ef), Si_p15.levels[k])]
  /\ Ef = Full(Len(Ef), 0)

(***************************************************************************)
(* apply_voltage with any index                                            *)
(***************************************************************************)
\* the indices a caller can give: none, those of the layers, and those
\* beyond them on either side
AnyIndices == {None} \cup {Some(i) : i \in (-Len(layers) - 2)..(Len(layers) + 1)}

\* the homojunction, on 7 and on 12 points
IndexInit == Init /\ constructed.layers = Homojunction

IndexNext ==
  \/ \E volt \in Voltages, index \in AnyIndices : ApplyVoltage(volt, index)
  \/ \E fermi \in BOOLEAN : Bend(fermi)

IndexSpec == IndexInit /\ [][IndexNext]_vars

(***************************************************************************)
(* C25                                                                     *)
(***************************************************************************)
\* C25: apply_voltage with an index that is not one of 0..N_layers-1 raises
\* and leaves Ec, Ev, E0, Ef and interfaces as they were
C25_OutsideRaises ==
  [][(last'.op = "apply_voltage" /\ ncalls' = ncalls + 1
        /\ last'.index # None /\ last'.index[1] \notin 0..(Len(layers) - 1))
     => /\ last'.raised # "none"
        /\ levels' = levels
        /\ Ef' = Ef
        /\ interfaces' = interfaces]_vars

(***************************************************************************)
(* C26                                                                     *)
(***************************************************************************)
\* C26: on a device of layers of positive thickness with two grid points or
\* more, the indices that a bend call reads at interface q to compute
\* delta_V are grid indices, the left one in the span of the layer left of
\* the interface and the right one in the span of the layer right of it
C26_ReadsInSpans ==
  (/\ last.op = "bend" /\ Len(Ef) >= 2 /\ Len(layers) = Len(interfaces) + 1
   /\ \A j \in 1..Len(layers) : layers[j].thickness > 0)
    => \A q \in 1..Len(interfaces) :
         /\ LeftIndex(interfaces[q], last.fermi) \in Span(Device, q)
         /\ RightIndex(interfaces[q], FALSE) \in Span(Device, q + 1)
         /\ last.fermi => RightIndex(interfaces[q], TRUE) \in Span(Device, q + 1)
====
